---------------------------- MODULE Spec2Model ----------------------------
(***************************************************************************)
(* A model of tapestry_archive/cli.py: the walk over the "previous" links  *)
(* of a Tapestry journal (run), the per-page extraction (get_metadata,     *)
(* save_media_for_page), the file naming (get_file_name) and the journal   *)
(* text (capture_observation_info).                                        *)
(*                                                                         *)
(* A text is a sequence of Unicode code points (65 is "A", 32 a space, 10  *)
(* a newline, 233 is e-acute); every literal is followed by the string it  *)
(* spells.  An optional value (an element select_one may not find, an      *)
(* attribute that may be absent) is a sequence of length 0 or 1.           *)
(***************************************************************************)
EXTENDS Integers, Sequences, FiniteSets, TLC

-----------------------------------------------------------------------------
(* Bounds of the model. *)

\* Pages the remote site holds; their identifiers are "1" .. "<MaxPages>".
MaxPages == 3

\* Page requests one run may issue (a cyclic chain of links never ends).
MaxFetches == 4

\* The longest title, and the largest ordinal, get_file_name is applied to.
MaxTitleLen == 2

MaxIndex == 1

\* The longest title of the single calls of get_file_name.
MaxLongTitleLen == 4

\* The longest text after "<base_url>/" in the href of a "previous" link.
MaxTailLen == 2

-----------------------------------------------------------------------------
(* Text helpers: what the str and re calls of the source compute. *)

\* str.isspace: the characters str.strip() removes.
IsSpace(c) ==
    c \in (9..13) \cup (28..32) \cup {133, 160, 5760} \cup (8192..8202)
          \cup {8232, 8233, 8239, 8287, 12288}

IsDigit(c) == c \in 48..57

RECURSIVE LStrip(_)
LStrip(s) == IF s # <<>> /\ IsSpace(Head(s)) THEN LStrip(Tail(s)) ELSE s

RECURSIVE RStrip(_)
RStrip(s) ==
    IF s # <<>> /\ IsSpace(s[Len(s)]) THEN RStrip(SubSeq(s, 1, Len(s) - 1)) ELSE s

\* str.strip()
Strip(s) == RStrip(LStrip(s))

\* str.replace(a, b) for one-character a and b
Replace(s, a, b) == [i \in 1..Len(s) |-> IF s[i] = a THEN b ELSE s[i]]

\* re.sub(r'[^\x00-\x7F]', '', s)
RemoveNonAscii(s) == SelectSeq(s, LAMBDA c : c >= 0 /\ c <= 127)

\* s[i:i+len(t)] == t
MatchesAt(s, t, i) ==
    /\ i + Len(t) - 1 <= Len(s)
    /\ \A k \in 1..Len(t) : s[i + k - 1] = t[k]

\* The positions where t occurs in s.
Occurrences(s, t) == {i \in 1..(Len(s) + 1) : MatchesAt(s, t, i)}

\* t in s
Contains(s, t) == Occurrences(s, t) # {}

Min(S) == CHOOSE x \in S : \A y \in S : x <= y

Max(S) == CHOOSE x \in S : \A y \in S : x >= y

\* The longest prefix of s made of decimal digits: what (\d*) matches at s.
RECURSIVE DigitPrefix(_)
DigitPrefix(s) ==
    IF s # <<>> /\ IsDigit(Head(s)) THEN <<Head(s)>> \o DigitPrefix(Tail(s)) ELSE <<>>

\* str(n) for n >= 0
RECURSIVE Dec(_)
Dec(n) == IF n < 10 THEN <<48 + n>> ELSE Dec(n \div 10) \o <<48 + (n % 10)>>

\* A two-digit, zero-padded field of strftime (%m %d %H %I %M).
Pad2(n) == <<48 + ((n \div 10) % 10), 48 + (n % 10)>>

\* int(s) for a non-empty text of digits
RECURSIVE ToInt(_)
ToInt(s) ==
    IF s = <<>> THEN 0 ELSE 10 * ToInt(SubSeq(s, 1, Len(s) - 1)) + (s[Len(s)] - 48)

AllDigits(s) == s # <<>> /\ \A i \in 1..Len(s) : IsDigit(s[i])

\* str.lower() on ASCII letters
Lower(s) == [i \in 1..Len(s) |-> IF s[i] \in 65..90 THEN s[i] + 32 ELSE s[i]]

\* s.split(sep) for a one-character sep
RECURSIVE Split(_, _)
Split(s, sep) ==
    LET cut == {i \in 1..Len(s) : s[i] = sep}
    IN  IF cut = {} THEN <<s>>
        ELSE <<SubSeq(s, 1, Min(cut) - 1)>> \o Split(SubSeq(s, Min(cut) + 1, Len(s)), sep)

\* sep.join(parts)
RECURSIVE Join(_, _)
Join(parts, sep) ==
    IF parts = <<>> THEN <<>>
    ELSE IF Len(parts) = 1 THEN parts[1]
    ELSE parts[1] \o sep \o Join(Tail(parts), sep)

RECURSIVE Concat(_)
Concat(parts) == IF parts = <<>> THEN <<>> ELSE Head(parts) \o Concat(Tail(parts))

-----------------------------------------------------------------------------
(* Dates: datetime.strptime and datetime.strftime. *)

\* The English month names of %B; %b is the first three letters.
MonthNames ==
    << <<74, 97, 110, 117, 97, 114, 121>>,             \* January
       <<70, 101, 98, 114, 117, 97, 114, 121>>,        \* February
       <<77, 97, 114, 99, 104>>,                       \* March
       <<65, 112, 114, 105, 108>>,                     \* April
       <<77, 97, 121>>,                                \* May
       <<74, 117, 110, 101>>,                          \* June
       <<74, 117, 108, 121>>,                          \* July
       <<65, 117, 103, 117, 115, 116>>,                \* August
       <<83, 101, 112, 116, 101, 109, 98, 101, 114>>,  \* September
       <<79, 99, 116, 111, 98, 101, 114>>,             \* October
       <<78, 111, 118, 101, 109, 98, 101, 114>>,       \* November
       <<68, 101, 99, 101, 109, 98, 101, 114>> >>      \* December

MonthAbbr(m) == SubSeq(MonthNames[m], 1, 3)

IsLeap(y) == (y % 4 = 0 /\ y % 100 # 0) \/ y % 400 = 0

DaysInMonth(y, m) ==
    IF m = 2 THEN (IF IsLeap(y) THEN 29 ELSE 28)
    ELSE IF m \in {4, 6, 9, 11} THEN 30 ELSE 31

\* "AM" / "PM" of %p
AmPm(hour) == IF hour < 12 THEN <<65, 77>> ELSE <<80, 77>>

\* The hour of %I: 12, 1, .., 11
Hour12(hour) == IF hour % 12 = 0 THEN 12 ELSE hour % 12

\* datetime.strptime(s, '%d %b %Y %I:%M %p') for fields separated by single
\* spaces: <<the datetime>>, or <<>> where strptime raises ValueError.
Strptime(s) ==
    LET f == Split(s, 32)
    IN  IF Len(f) # 5 THEN <<>>
        ELSE
        LET hm     == Split(f[4], 58)
            months == {m \in 1..12 : Lower(MonthAbbr(m)) = Lower(f[2])}
            pm     == Lower(f[5])
        IN  IF \/ ~(AllDigits(f[1]) /\ Len(f[1]) <= 2 /\ ToInt(f[1]) \in 1..31)
               \/ months = {}
               \/ ~(AllDigits(f[3]) /\ Len(f[3]) = 4)
               \/ Len(hm) # 2
               \/ pm \notin {<<97, 109>>, <<112, 109>>}          \* am, pm
            THEN <<>>
            ELSE IF \/ ~(AllDigits(hm[1]) /\ Len(hm[1]) <= 2 /\ ToInt(hm[1]) \in 1..12)
                    \/ ~(AllDigits(hm[2]) /\ Len(hm[2]) <= 2 /\ ToInt(hm[2]) \in 0..59)
            THEN <<>>
            ELSE
            LET mon == CHOOSE m \in months : TRUE
                yr  == ToInt(f[3])
            IN  IF yr < 1 \/ ToInt(f[1]) > DaysInMonth(yr, mon) THEN <<>>
                ELSE << [year   |-> yr,
                         month  |-> mon,
                         day    |-> ToInt(f[1]),
                         hour   |-> (ToInt(hm[1]) % 12)
                                      + (IF pm = <<112, 109>> THEN 12 ELSE 0),
                         minute |-> ToInt(hm[2])] >>

\* date.strftime('%-d %B %Y %I:%M%p')
StrftimeJournal(d) ==
    Dec(d.day) \o <<32>> \o MonthNames[d.month] \o <<32>> \o Dec(d.year) \o <<32>>
        \o Pad2(Hour12(d.hour)) \o <<58>> \o Pad2(d.minute) \o AmPm(d.hour)

\* date.strftime('./images/%Y-%m-%d-%H-%M-')
StrftimeFile(d) ==
    <<46, 47, 105, 109, 97, 103, 101, 115, 47>>                   \* ./images/
        \o Dec(d.year) \o <<45>> \o Pad2(d.month) \o <<45>> \o Pad2(d.day) \o <<45>>
        \o Pad2(d.hour) \o <<45>> \o Pad2(d.minute) \o <<45>>

-----------------------------------------------------------------------------
(* The outcome of a call: a returned value or a raised exception. *)

Return(v) == [raised |-> FALSE, exc |-> "", value |-> v]

Raise(e) == [raised |-> TRUE, exc |-> e, value |-> <<>>]

\* Python's None and str values of observation_id.
None == [none |-> TRUE, str |-> <<>>]

Str(s) == [none |-> FALSE, str |-> s]

\* bool(v): None and '' are false.
Truthy(v) == ~v.none /\ v.str # <<>>

-----------------------------------------------------------------------------
(* The configuration. *)

\* TapestryConfig.from_env(), with TAPESTRY_SCHOOL "sch", TAPESTRY_NAME "Kim"
\* and TAPESTRY_FIRST_OBSERVATION_ID "1".
config ==
    LET school == <<115, 99, 104>>                                \* sch
    IN  [first_observation_id |-> <<49>>,                         \* 1
         name     |-> <<75, 105, 109>>,                           \* Kim
         school   |-> school,
         base_url |->
            <<104, 116, 116, 112, 115, 58, 47, 47, 116, 97, 112, 101, 115, 116, 114,
              121, 106, 111, 117, 114, 110, 97, 108, 46, 99, 111, 109, 47, 115, 47>>
                                                  \* https://tapestryjournal.com/s/
            \o school
            \o <<47, 111, 98, 115, 101, 114, 118, 97, 116, 105, 111, 110>>]
                                                  \* /observation

-----------------------------------------------------------------------------
(* The pure functions of the source. *)

\* Slug with the non-ASCII characters of the title left in.
Slug_KeepsNonAscii(title) == Replace(Strip(title), 32, 45)

\* The title as get_file_name writes it into a file name.
Slug(title) == Replace(Strip(RemoveNonAscii(title)), 32, 45)

\* get_file_name with the ordinal suffix written for every index (index >= 0).
get_file_name_AlwaysOrdinal(metadata, index, video) ==
    StrftimeFile(metadata.date)
        \o Slug(metadata.title)
        \o (IF index >= 0 THEN <<45>> \o Dec(index) ELSE <<>>)
        \o (IF video THEN <<46, 109, 112, 52>> ELSE <<46, 106, 112, 101, 103>>)

\* get_file_name without the ordinal suffix.
get_file_name_NoOrdinal(metadata, index, video) ==
    StrftimeFile(metadata.date)
        \o Slug(metadata.title)
        \o (IF video THEN <<46, 109, 112, 52>> ELSE <<46, 106, 112, 101, 103>>)

get_file_name(metadata, index, video) ==
    StrftimeFile(metadata.date)
        \o Slug(metadata.title)
        \o (IF index > 0 THEN <<45>> \o Dec(index) ELSE <<>>)
        \o (IF video THEN <<46, 109, 112, 52>>                    \* .mp4
                     ELSE <<46, 106, 112, 101, 103>>)             \* .jpeg

\* re.search(r'Authored by (.*) added (.*)', s): <<[g1, g2]>> or <<>> (None).
\* "." matches no newline, the first group is greedy, the match is leftmost.
CaptionMatch(s) ==
    LET auth   == <<65, 117, 116, 104, 111, 114, 101, 100, 32, 98, 121, 32>>
                                                                  \* "Authored by "
        added  == <<32, 97, 100, 100, 101, 100, 32>>              \* " added "
        NoNl(a, b) == \A k \in a..b : s[k] # 10
        Cuts(i)    == {j \in Occurrences(s, added) :
                          j >= i + Len(auth) /\ NoNl(i + Len(auth), j - 1)}
        starts     == {i \in Occurrences(s, auth) : Cuts(i) # {}}
    IN  IF starts = {} THEN <<>>
        ELSE
        LET i    == Min(starts)
            j    == Max(Cuts(i))
            from == j + Len(added)
            nl   == {k \in from..Len(s) : s[k] = 10}
            to   == IF nl = {} THEN Len(s) ELSE Min(nl) - 1
        IN  << [g1 |-> SubSeq(s, i + Len(auth), j - 1), g2 |-> SubSeq(s, from, to)] >>

\* get_metadata with the scan of the alerts after the extraction of the fields.
get_metadata_AlertsLast(doc) ==
    IF doc.h1 = <<>> THEN Raise("AttributeError")
    ELSE IF doc.note = <<>> THEN Raise("AttributeError")
    ELSE IF doc.caption = <<>> THEN Raise("AttributeError")
    ELSE
    LET match == CaptionMatch(Strip(doc.caption[1]))
    IN  IF match = <<>> THEN Raise("AttributeError")
        ELSE
        LET date == Strptime(match[1].g2)
        IN  IF date = <<>> THEN Raise("ValueError")
            ELSE IF \E a \in 1..Len(doc.alerts) :
                       Contains(Strip(doc.alerts[a]),
                                <<108, 111, 103, 103, 101, 100, 32, 111, 117, 116>>)
            THEN Raise("LoggedOutException")
            ELSE Return([title       |-> Strip(doc.h1[1]),
                         description |-> Replace(Strip(doc.note[1]), 10, 32),
                         artist      |-> match[1].g1,
                         date        |-> date[1]])

get_metadata(doc) ==
    IF \E a \in 1..Len(doc.alerts) :
          LET alert_text == Strip(doc.alerts[a])
          IN  /\ alert_text # <<>>
              /\ Contains(alert_text,
                          <<108, 111, 103, 103, 101, 100, 32, 111, 117, 116>>)
                                                                  \* logged out
    THEN Raise("LoggedOutException")
    ELSE IF doc.h1 = <<>> THEN Raise("AttributeError")
    ELSE IF doc.note = <<>> THEN Raise("AttributeError")
    ELSE IF doc.caption = <<>> THEN Raise("AttributeError")
    ELSE
    LET match == CaptionMatch(Strip(doc.caption[1]))
    IN  IF match = <<>> THEN Raise("AttributeError")
        ELSE
        LET date == Strptime(match[1].g2)
        IN  IF date = <<>> THEN Raise("ValueError")
            ELSE Return([title       |-> Strip(doc.h1[1]),
                         description |-> Replace(Strip(doc.note[1]), 10, 32),
                         artist      |-> match[1].g1,
                         date        |-> date[1]])

\* capture_observation_info with %d (zero-padded) for %-d.
capture_observation_info_PaddedDay(metadata) ==
    <<35, 35, 32>> \o metadata.title \o <<10, 10>>
        \o <<35, 35, 35, 32>> \o metadata.artist \o <<44, 32>>
        \o Pad2(metadata.date.day) \o Tail(StrftimeJournal(metadata.date)) \o <<10, 10>>
        \o metadata.description \o <<10, 10>>

capture_observation_info(metadata) ==
    <<35, 35, 32>> \o metadata.title \o <<10, 10>>                \* "## {}\n\n"
        \o <<35, 35, 35, 32>> \o metadata.artist \o <<44, 32>>    \* "### {}, {}\n\n"
        \o StrftimeJournal(metadata.date) \o <<10, 10>>
        \o metadata.description \o <<10, 10>>                     \* "{}\n\n"

\* get_next_observation_id with the "/" left out of the pattern.
get_next_observation_id_NoSlash(doc) ==
    IF doc.previous = <<>> THEN Return(None)
    ELSE IF doc.previous[1].href = <<>> THEN Raise("KeyError")
    ELSE
    LET href    == doc.previous[1].href[1]
        pattern == config.base_url
        found   == Occurrences(href, pattern)
    IN  IF found = {} THEN Raise("RuntimeError")
        ELSE Return(Str(DigitPrefix(
                 SubSeq(href, Min(found) + Len(pattern), Len(href)))))

\* get_next_observation_id with the pattern <base_url>/(\d+): the identifier
\* has one digit at least.
get_next_observation_id_OneDigitAtLeast(doc) ==
    IF doc.previous = <<>> THEN Return(None)
    ELSE IF doc.previous[1].href = <<>> THEN Raise("KeyError")
    ELSE
    LET href    == doc.previous[1].href[1]
        pattern == config.base_url \o <<47>>
        rest(p) == SubSeq(href, p + Len(pattern), Len(href))
        found   == {p \in Occurrences(href, pattern) : DigitPrefix(rest(p)) # <<>>}
    IN  IF found = {} THEN Raise("RuntimeError")
        ELSE Return(Str(DigitPrefix(rest(Min(found)))))

get_next_observation_id(doc) ==
    IF doc.previous = <<>> THEN Return(None)
    ELSE IF doc.previous[1].href = <<>> THEN Raise("KeyError")
    ELSE
    LET href    == doc.previous[1].href[1]
        pattern == config.base_url \o <<47>>
        found   == Occurrences(href, pattern)
    IN  IF found = {} THEN Raise("RuntimeError")
        ELSE Return(Str(DigitPrefix(
                 SubSeq(href, Min(found) + Len(pattern), Len(href)))))

-----------------------------------------------------------------------------
(* The remote site: the pages GET <base_url>/<id> may return, and the      *)
(* document BeautifulSoup makes of each.                                   *)

\* The identifier of the i-th page: the text of the digit i.
IdOf(i) == <<48 + i>>

PageIds == {IdOf(i) : i \in 1..MaxPages}

\* The date as the site prints it in the caption: "2 May 2023 2:30 PM".
SiteDate(d) ==
    Dec(d.day) \o <<32>> \o MonthAbbr(d.month) \o <<32>> \o Dec(d.year) \o <<32>>
        \o Dec(Hour12(d.hour)) \o <<58>> \o Pad2(d.minute) \o <<32>> \o AmPm(d.hour)

\* An <img> or <source> element: whether it has a src, and what GET src yields
\* ("ok", "http_error" for a non-2xx answer, "timeout", "connection_error").
Asset(response) == [has_src |-> TRUE, response |-> response]

NoSrcAsset == [has_src |-> FALSE, response |-> "ok"]

\* The "previous" navigation of a page.
NoLink == [kind |-> "none", target |-> <<>>]

LinkTo(id) == [kind |-> "page", target |-> id]

Links ==
    {NoLink} \cup {LinkTo(id) : id \in PageIds}
        \cup {[kind |-> k, target |-> IdOf(1)] : k \in {"relative", "nondigit", "no_href"}}

\* Two observations as the site holds them.
Observation1 ==
    [title   |-> <<65, 114, 116, 32, 68, 97, 121, 33>>,           \* Art Day!
     lines   |-> << <<70, 117, 110>> >>,                          \* Fun
     artist  |-> <<65, 108>>,                                     \* Al
     date    |-> [year |-> 2023, month |-> 5, day |-> 2, hour |-> 14, minute |-> 30],
     alerts  |-> << <<32, 10>>, <<87, 101, 108, 99, 111, 109, 101>> >>,
                                                                  \* " \n", Welcome
     images  |-> <<Asset("ok")>>,
     videos  |-> <<>>,
     defect  |-> "none"]

Observation2 ==
    [title   |-> <<67, 97, 102, 233, 32, 122, 32, 233>>,          \* Cafe z e (two e-acute)
     lines   |-> << <<77, 117, 100>>, <<100, 97, 121>> >>,        \* Mud / day
     artist  |-> <<66, 111, 32, 97, 100, 100, 101, 100, 32, 109, 101>>,
                                                                  \* Bo added me
     date    |-> [year |-> 2022, month |-> 12, day |-> 12, hour |-> 0, minute |-> 5],
     alerts  |-> << <<76, 111, 103, 103, 101, 100, 32, 111, 117, 116, 63>> >>,
                                                                  \* Logged out?
     images  |-> <<Asset("ok"), Asset("http_error")>>,
     videos  |-> <<Asset("ok"), Asset("ok")>>,
     defect  |-> "none"]

\* The banner of an expired session.
LoggedOutAlert ==
    <<10, 89, 111, 117, 32, 104, 97, 118, 101, 32, 98, 101, 101, 110, 32, 108, 111,
      103, 103, 101, 100, 32, 111, 117, 116, 46, 10>>   \* "\nYou have been logged out.\n"

WithLink(o, link) == [x \in DOMAIN o \cup {"previous"} |->
                         IF x = "previous" THEN link ELSE o[x]]

\* Pages whose processing runs to the end.
GoodPages == {WithLink(o, l) : o \in {Observation1, Observation2}, l \in Links}

\* Pages on which one step fails; each has a "previous" link to page 1.
BadPages ==
    {WithLink(o, LinkTo(IdOf(1))) : o \in
        {[Observation2 EXCEPT !.defect = "no_fields", !.alerts = <<LoggedOutAlert>>],
         [Observation2 EXCEPT !.alerts = <<<<>>, @[1], LoggedOutAlert>>],
         [Observation2 EXCEPT !.defect = "no_h1"],
         [Observation2 EXCEPT !.defect = "no_note"],
         [Observation2 EXCEPT !.defect = "no_caption"],
         [Observation2 EXCEPT !.defect = "caption_mismatch"],
         [Observation2 EXCEPT !.defect = "bad_date"],
         [Observation2 EXCEPT !.images = <<Asset("ok"), NoSrcAsset>>],
         [Observation2 EXCEPT !.images = <<Asset("ok"), Asset("timeout")>>],
         [Observation2 EXCEPT !.videos = <<Asset("ok"), Asset("connection_error")>>]}}

Pages == GoodPages \cup BadPages

\* The href of the "previous" anchor, or <<>> when the anchor has none.
Href(link) ==
    IF link.kind = "page" THEN <<config.base_url \o <<47>> \o link.target>>
    ELSE IF link.kind = "nondigit"
        THEN <<config.base_url \o <<47, 97, 98, 99>>>>            \* <base_url>/abc
    ELSE IF link.kind = "relative"
        THEN << <<47, 115, 47>> \o config.school
                  \o <<47, 111, 98, 115, 101, 114, 118, 97, 116, 105, 111, 110, 47>>
                  \o link.target >>                        \* /s/sch/observation/<id>
    ELSE IF link.kind = "href" THEN <<link.target>>          \* the text given
    ELSE <<>>

\* The document of a page: the text of the first h1, of the first
\* ".page-note p" and of the first ".obs-metadata p" (<<>> when the selector
\* finds nothing), the texts of the ".alert" elements, the gallery's img
\* and video source elements, and the "li.previous a" anchor.
RenderPage(page) ==
    LET pad  == <<10, 32, 32>>
        bare == page.defect = "no_fields"
    IN  [alerts   |-> page.alerts,
         h1       |-> IF bare \/ page.defect = "no_h1" THEN <<>>
                      ELSE <<pad \o page.title \o <<10>>>>,
         note     |-> IF bare \/ page.defect = "no_note" THEN <<>>
                      ELSE <<pad \o Join(page.lines, <<10>>) \o <<32, 10>>>>,
         caption  |-> IF bare \/ page.defect = "no_caption" THEN <<>>
                      ELSE IF page.defect = "caption_mismatch"
                          THEN << <<65, 100, 100, 101, 100, 32, 98, 121, 32>>
                                    \o page.artist >>              \* Added by <artist>
                      ELSE IF page.defect = "bad_date"
                          THEN << <<65, 117, 116, 104, 111, 114, 101, 100, 32, 98, 121, 32>>
                                    \o page.artist \o <<32, 97, 100, 100, 101, 100, 32>>
                                    \o Pad2(page.date.hour) \o <<58>> \o Pad2(page.date.minute) >>
                                                  \* Authored by <artist> added 00:05
                      ELSE << pad
                                \o <<65, 117, 116, 104, 111, 114, 101, 100, 32, 98, 121, 32>>
                                \o page.artist \o <<32, 97, 100, 100, 101, 100, 32>>
                                \o SiteDate(page.date) \o <<10>> >>,
         images   |-> page.images,
         videos   |-> page.videos,
         previous |-> IF page.previous.kind = "none" THEN <<>>
                      ELSE <<[href |-> Href(page.previous)]>>]

-----------------------------------------------------------------------------
(* The state of one execution of main(). *)

VARIABLES
    site,            \* the page each identifier was seen to hold: <<>> until fetched
    pc,              \* where run() stands
    observation_id,  \* run's observation_id
    md,              \* run's md, the journal text so far
    doc,             \* run's doc: <<>> or <<the document>>
    metadata,        \* save_media_for_page's metadata: <<>> or <<the dict>>
    idx,             \* the idx of the enumerate() loop under way
    requests,        \* the page identifiers requested by get_doc, in order
    downloads,       \* the asset requests issued, in order
    files,           \* the media files written, in order
    journal,         \* the texts written to ./images/observations-info.md, in order
    failure,         \* <<>> or <<the step that raised and the exception>>
    exit_status,     \* <<>> or <<the status the process exited with>>
    name_args,       \* the arguments of two calls of get_file_name, or <<>>
    names            \* what the two calls returned, or <<>>

run_vars == <<site, pc, observation_id, md, doc, metadata, idx, requests, downloads,
              files, journal, failure, exit_status>>

naming_vars == <<name_args, names>>

vars == <<run_vars, naming_vars>>

\* "# Tapestry observations for {}\n\n".format(config.name)
Header ==
    <<35, 32, 84, 97, 112, 101, 115, 116, 114, 121, 32, 111, 98, 115, 101, 114, 118,
      97, 116, 105, 111, 110, 115, 32, 102, 111, 114, 32>> \o config.name \o <<10, 10>>

RunInit ==
    /\ site = [id \in PageIds |-> <<>>]
    /\ pc = "while"
    /\ observation_id = Str(config.first_observation_id)
    /\ md = Header
    /\ doc = <<>>
    /\ metadata = <<>>
    /\ idx = 0
    /\ requests = <<>>
    /\ downloads = <<>>
    /\ files = <<>>
    /\ journal = <<>>
    /\ failure = <<>>
    /\ exit_status = <<>>

Init ==
    /\ RunInit
    /\ name_args = <<>>
    /\ names = <<>>

\* Propagate as it would be with the exception caught and logged inside the
\* loop of run(): the loop goes round again.
PropagateRetry(step, exc) ==
    /\ pc' = "while"
    /\ failure' = <<[step |-> step, exc |-> exc]>>
    /\ UNCHANGED <<journal, exit_status>>

\* Propagate as it would be with the write of the journal in a finally clause.
PropagateFlushing(step, exc) ==
    /\ pc' = "aborted"
    /\ failure' = <<[step |-> step, exc |-> exc]>>
    /\ exit_status' = <<1>>
    /\ journal' = Append(journal, md)

\* Propagate as it would be with main() catching every other exception too
\* and returning normally after logging it.
PropagateExitsZero(step, exc) ==
    /\ pc' = "aborted"
    /\ failure' = <<[step |-> step, exc |-> exc]>>
    /\ exit_status' = IF exc = "LoggedOutException" THEN <<1>> ELSE <<0>>
    /\ UNCHANGED journal

\* An exception raised in `step` leaves run(): nothing in run() catches it.
\* main() catches LoggedOutException and calls sys.exit(1); any other
\* exception ends the interpreter with a traceback and status 1.
Propagate(step, exc) ==
    /\ pc' = "aborted"
    /\ failure' = <<[step |-> step, exc |-> exc]>>
    /\ exit_status' = <<1>>
    /\ UNCHANGED journal

\* while observation_id: doc = get_doc(observation_id, config=config)
GetDoc ==
    /\ pc = "while"
    /\ Truthy(observation_id)
    /\ Len(requests) < MaxFetches
    /\ requests' = Append(requests, observation_id.str)
    /\ \/ \E exc \in {"Timeout", "ConnectionError", "HTTPError"} :
            /\ exc = "HTTPError" \/ observation_id.str \in PageIds
            /\ Propagate("fetch", exc)
            /\ UNCHANGED <<site, doc>>
       \/ /\ observation_id.str \in PageIds
          /\ \E page \in Pages :
                /\ site[observation_id.str] \in {<<>>, <<page>>}
                /\ site' = [site EXCEPT ![observation_id.str] = <<page>>]
                /\ doc' = <<RenderPage(page)>>
          /\ pc' = "save_media"
          /\ UNCHANGED <<journal, failure, exit_status>>
    /\ UNCHANGED <<observation_id, md, metadata, idx, downloads, files>>
    /\ UNCHANGED naming_vars

\* save_media_for_page up to metadata = get_metadata(doc)
GetMetadata ==
    /\ pc = "save_media"
    /\ LET r == get_metadata(doc[1])
       IN  IF r.raised
           THEN Propagate("metadata", r.exc) /\ UNCHANGED <<metadata, idx>>
           ELSE /\ metadata' = <<r.value>>
                /\ idx' = 0
                /\ pc' = "images"
                /\ UNCHANGED <<journal, failure, exit_status>>
    /\ UNCHANGED <<site, observation_id, md, doc, requests, downloads, files>>
    /\ UNCHANGED naming_vars

\* SaveAsset with the loop running over the elements from the last to the
\* first.
SaveAsset_LastFirst(assets, video) ==
    LET last  == Len(assets) - 1 - idx
        asset == assets[last + 1]
    IN  IF ~asset.has_src
        THEN Propagate("download", "KeyError") /\ UNCHANGED <<idx, downloads, files>>
        ELSE
        /\ downloads' = Append(downloads,
               [page |-> observation_id.str, video |-> video, index |-> last])
        /\ IF asset.response = "timeout"
           THEN Propagate("download", "Timeout") /\ UNCHANGED <<idx, files>>
           ELSE IF asset.response = "connection_error"
           THEN Propagate("download", "ConnectionError") /\ UNCHANGED <<idx, files>>
           ELSE /\ files' = Append(files,
                       [path  |-> get_file_name(metadata[1], last, video),
                        body  |-> IF asset.response = "ok" THEN "media" ELSE "error_page",
                        page  |-> observation_id.str,
                        video |-> video,
                        index |-> last])
                /\ idx' = idx + 1
                /\ UNCHANGED <<pc, journal, failure, exit_status>>

\* One turn of a loop of save_images_for_page / save_videos_for_page over
\* `assets`: read src, GET it, name the file, write the bytes received.
\* requests.get raises on a timeout or a connection error; the answer's
\* status is not looked at, so the body of a non-2xx answer is written too.
SaveAsset(assets, video) ==
    LET asset == assets[idx + 1]
    IN  IF ~asset.has_src
        THEN Propagate("download", "KeyError") /\ UNCHANGED <<idx, downloads, files>>
        ELSE
        /\ downloads' = Append(downloads,
               [page |-> observation_id.str, video |-> video, index |-> idx])
        /\ IF asset.response = "timeout"
           THEN Propagate("download", "Timeout") /\ UNCHANGED <<idx, files>>
           ELSE IF asset.response = "connection_error"
           THEN Propagate("download", "ConnectionError") /\ UNCHANGED <<idx, files>>
           ELSE /\ files' = Append(files,
                       [path  |-> get_file_name(metadata[1], idx, video),
                        body  |-> IF asset.response = "ok" THEN "media" ELSE "error_page",
                        page  |-> observation_id.str,
                        video |-> video,
                        index |-> idx])
                /\ idx' = idx + 1
                /\ UNCHANGED <<pc, journal, failure, exit_status>>

SaveImage ==
    /\ pc = "images"
    /\ idx < Len(doc[1].images)
    /\ SaveAsset(doc[1].images, FALSE)
    /\ UNCHANGED <<site, observation_id, md, doc, metadata, requests>>
    /\ UNCHANGED naming_vars

\* save_images_for_page returns; save_videos_for_page starts.
EndImages ==
    /\ pc = "images"
    /\ idx = Len(doc[1].images)
    /\ pc' = "videos"
    /\ idx' = 0
    /\ UNCHANGED <<site, observation_id, md, doc, metadata, requests, downloads, files,
                   journal, failure, exit_status>>
    /\ UNCHANGED naming_vars

SaveVideo ==
    /\ pc = "videos"
    /\ idx < Len(doc[1].videos)
    /\ SaveAsset(doc[1].videos, TRUE)
    /\ UNCHANGED <<site, observation_id, md, doc, metadata, requests>>
    /\ UNCHANGED naming_vars

\* Capture with the section assigned to md (md = ..) where run adds it (md += ..).
Capture_Assigns ==
    /\ pc = "videos"
    /\ idx = Len(doc[1].videos)
    /\ md' = capture_observation_info(metadata[1])
    /\ pc' = "next"
    /\ UNCHANGED <<site, observation_id, doc, metadata, idx, requests, downloads, files,
                   journal, failure, exit_status>>
    /\ UNCHANGED naming_vars

\* save_media_for_page returns capture_observation_info(metadata); run adds it to md.
Capture ==
    /\ pc = "videos"
    /\ idx = Len(doc[1].videos)
    /\ md' = md \o capture_observation_info(metadata[1])
    /\ pc' = "next"
    /\ UNCHANGED <<site, observation_id, doc, metadata, idx, requests, downloads, files,
                   journal, failure, exit_status>>
    /\ UNCHANGED naming_vars

\* GetNext with the identifier found bound to another name than observation_id.
GetNextKeepsId ==
    /\ pc = "next"
    /\ LET r == get_next_observation_id(doc[1])
       IN  IF r.raised
           THEN Propagate("navigation", r.exc) /\ UNCHANGED observation_id
           ELSE /\ observation_id' = IF Truthy(r.value) THEN observation_id ELSE r.value
                /\ pc' = "while"
                /\ UNCHANGED <<journal, failure, exit_status>>
    /\ UNCHANGED <<site, md, doc, metadata, idx, requests, downloads, files>>
    /\ UNCHANGED naming_vars

\* GetNext with a record of the pages visited: an identifier requested before
\* ends the walk.
GetNext_StopsAtVisited ==
    /\ pc = "next"
    /\ LET r == get_next_observation_id(doc[1])
       IN  IF r.raised
           THEN Propagate("navigation", r.exc) /\ UNCHANGED observation_id
           ELSE /\ observation_id' =
                      IF \E i \in 1..Len(requests) : requests[i] = r.value.str
                      THEN None ELSE r.value
                /\ pc' = "while"
                /\ UNCHANGED <<journal, failure, exit_status>>
    /\ UNCHANGED <<site, md, doc, metadata, idx, requests, downloads, files>>
    /\ UNCHANGED naming_vars

\* observation_id = get_next_observation_id(doc, config=config)
GetNext ==
    /\ pc = "next"
    /\ LET r == get_next_observation_id(doc[1])
       IN  IF r.raised
           THEN Propagate("navigation", r.exc) /\ UNCHANGED observation_id
           ELSE /\ observation_id' = r.value
                /\ pc' = "while"
                /\ UNCHANGED <<journal, failure, exit_status>>
    /\ UNCHANGED <<site, md, doc, metadata, idx, requests, downloads, files>>
    /\ UNCHANGED naming_vars

\* The loop ends: Path('./images/observations-info.md').write_text(md); run
\* returns, main returns and the process exits with status 0.
WriteJournal ==
    /\ pc = "while"
    /\ ~Truthy(observation_id)
    /\ journal' = Append(journal, md)
    /\ pc' = "done"
    /\ exit_status' = <<0>>
    /\ UNCHANGED <<site, observation_id, md, doc, metadata, idx, requests, downloads,
                   files, failure>>
    /\ UNCHANGED naming_vars

Next ==
    \/ GetDoc
    \/ GetMetadata
    \/ SaveImage
    \/ EndImages
    \/ SaveVideo
    \/ Capture
    \/ GetNext
    \/ WriteJournal

Spec == Init /\ [][Next]_vars

\* The positions in the code of run().
Stages == {"while", "save_media", "images", "videos", "next", "done", "aborted"}

\* The run is not over (and the model has a request left for it).
Running ==
    /\ pc \notin {"done", "aborted"}
    /\ (pc = "while" /\ Truthy(observation_id)) => Len(requests) < MaxFetches

\* The thread moves to another position in the code.
Advance == Running /\ pc' \in Stages

\* run() is the one thread of the program and every call it makes returns or
\* raises (each request carries config.timeout, each loop over the elements
\* of a page is finite): while the run is not over, the thread moves on.
FairSpec == Spec /\ WF_pc(Advance)

-----------------------------------------------------------------------------
(* get_file_name on its own: two calls, their arguments drawn from bounded   *)
(* sets.                                                                   *)

\* a, a space, a hyphen, the digit 1, e-acute
TitleChars == {97, 32, 45, 49, 233}

\* The titles get_metadata can return: texts with no whitespace at either end.
Titles ==
    {t \in UNION {[1..n -> TitleChars] : n \in 0..MaxTitleLen} : Strip(t) = t}

Dates ==
    {[year |-> 2023, month |-> 5, day |-> 2, hour |-> 14, minute |-> m] : m \in {30, 31}}

NameArgs ==
    [metadata : [title : Titles, date : Dates], index : 0..MaxIndex, video : BOOLEAN]

\* Two assets of one kind; the first is taken at 14:30 (the second at either
\* minute, so every pair of equal or different minutes occurs).
InitNames ==
    /\ RunInit
    /\ name_args \in {p \in NameArgs \X NameArgs :
                          /\ p[1].video = p[2].video
                          /\ p[1].metadata.date.minute = 30}
    /\ names = <<>>

ApplyGetFileName ==
    /\ names = <<>>
    /\ names' = <<get_file_name(name_args[1].metadata, name_args[1].index,
                                name_args[1].video),
                  get_file_name(name_args[2].metadata, name_args[2].index,
                                name_args[2].video)>>
    /\ UNCHANGED <<run_vars, name_args>>

NextNames == ApplyGetFileName

SpecNames == InitNames /\ [][NextNames]_vars

-----------------------------------------------------------------------------
(* get_file_name on its own: one call, on titles long enough to hold a     *)
(* space between two other characters.                                     *)

LongTitles ==
    {t \in UNION {[1..n -> TitleChars] : n \in 0..MaxLongTitleLen} : Strip(t) = t}

LongNameArgs ==
    [metadata : [title : LongTitles, date : Dates], index : 0..MaxIndex, video : BOOLEAN]

InitName ==
    /\ RunInit
    /\ name_args \in {<<a>> : a \in LongNameArgs}
    /\ names = <<>>

ApplyGetFileNameOnce ==
    /\ names = <<>>
    /\ names' = <<get_file_name(name_args[1].metadata, name_args[1].index,
                                name_args[1].video)>>
    /\ UNCHANGED <<run_vars, name_args>>

NextName == ApplyGetFileNameOnce

SpecName == InitName /\ [][NextName]_vars

-----------------------------------------------------------------------------
(* The walk over pages whose "previous" link has any href of a bounded set. *)

\* 1, 2, a
HrefTailChars == {49, 50, 97}

HrefTails == UNION {[1..n -> HrefTailChars] : n \in 0..MaxTailLen}

\* <base_url>/<tail>; x<base_url>/2; <base_url>/a<base_url>/1; and
\* /s/sch/observation/1, which has no <base_url>/ in it.
Hrefs ==
    {config.base_url \o <<47>> \o t : t \in HrefTails}
        \cup {<<120>> \o config.base_url \o <<47, 50>>,
              config.base_url \o <<47, 97>> \o config.base_url \o <<47, 49>>,
              Href([kind |-> "relative", target |-> IdOf(1)])[1]}

LinkPages ==
    {WithLink(o, l) :
        o \in {Observation1, Observation2},
        l \in {NoLink} \cup {[kind |-> "href", target |-> h] : h \in Hrefs}}

\* GetDoc on a site of LinkPages.
GetDocOfLinks ==
    /\ pc = "while"
    /\ Truthy(observation_id)
    /\ Len(requests) < MaxFetches
    /\ requests' = Append(requests, observation_id.str)
    /\ \/ \E exc \in {"Timeout", "ConnectionError", "HTTPError"} :
            /\ exc = "HTTPError" \/ observation_id.str \in PageIds
            /\ Propagate("fetch", exc)
            /\ UNCHANGED <<site, doc>>
       \/ /\ observation_id.str \in PageIds
          /\ \E page \in LinkPages :
                /\ site[observation_id.str] \in {<<>>, <<page>>}
                /\ site' = [site EXCEPT ![observation_id.str] = <<page>>]
                /\ doc' = <<RenderPage(page)>>
          /\ pc' = "save_media"
          /\ UNCHANGED <<journal, failure, exit_status>>
    /\ UNCHANGED <<observation_id, md, metadata, idx, downloads, files>>
    /\ UNCHANGED naming_vars

NextLinks ==
    \/ GetDocOfLinks
    \/ GetMetadata
    \/ SaveImage
    \/ EndImages
    \/ SaveVideo
    \/ Capture
    \/ GetNext
    \/ WriteJournal

SpecLinks == Init /\ [][NextLinks]_vars

-----------------------------------------------------------------------------
(* What the claims speak of. *)

\* The page the i-th request was answered with (when it was answered).
Visited(i) == site[requests[i]][1]

\* The identifier the walk follows from page id, <<>> when it follows none.
Successor(id) ==
    IF site[id] # <<>> /\ site[id][1].previous.kind = "page"
    THEN site[id][1].previous.target ELSE <<>>

RECURSIVE Follow(_, _)
Follow(id, n) == IF n = 0 \/ id = <<>> THEN id ELSE Follow(Successor(id), n - 1)

\* No page seen so far leads back to itself through "previous" links.
Acyclic == \A id \in PageIds : \A n \in 1..MaxPages : Follow(id, n) # id

\* Every page seen so far has a "previous" link to a page, or none.
ChainLinksOnly ==
    \A id \in PageIds : site[id] # <<>> => site[id][1].previous.kind \in {"none", "page"}

\* The journal section of a page: heading, sub-heading and body.
ExpectedSection(page) ==
    <<35, 35, 32>> \o page.title \o <<10, 10>>
        \o <<35, 35, 35, 32>> \o page.artist \o <<44, 32>>
        \o StrftimeJournal(page.date) \o <<10, 10>>
        \o Join(page.lines, <<32>>) \o <<10, 10>>

\* The journal of the first n pages requested.
ExpectedJournal(n) == Header \o Concat([i \in 1..n |-> ExpectedSection(Visited(i))])

-----------------------------------------------------------------------------
(* C1 *)

-----------------------------------------------------------------------------
(* C2 *)

\* C2: on a chain of pages, each but the last linking to the next, with no
\* failing step, the requests are the pages of the chain, each once and in
\* link order from config.first_observation_id; the walk goes on exactly
\* while the page has a link and is Done after the page without one.
C2_ChainWalkedInOrder ==
    (failure = <<>> /\ ChainLinksOnly /\ Acyclic) =>
        /\ requests # <<>> => requests[1] = config.first_observation_id
        /\ \A i \in 1..(Len(requests) - 1) :
              Visited(i).previous = LinkTo(requests[i + 1])
        /\ \A i, j \in 1..Len(requests) : i # j => requests[i] # requests[j]
        /\ pc = "done" =>
              requests # <<>> /\ Visited(Len(requests)).previous = NoLink
        /\ (pc = "while" /\ requests # <<>>) =>
              IF Visited(Len(requests)).previous = NoLink
              THEN ~Truthy(observation_id)
              ELSE observation_id = Str(Visited(Len(requests)).previous.target)

\* The chain of three pages of the spec's scenario, walked to Done.
C2_ThreePageChainDone ==
    /\ pc = "done"
    /\ ChainLinksOnly /\ Acyclic
    /\ Len(requests) = 3

-----------------------------------------------------------------------------
(* C3 *)

\* C3: at Done the journal file holds the heading with config.name and then
\* one section per page visited, the last one included, in the order of the
\* visits; a section gives the page's title, its artist and formatted date,
\* and its description on one line.
C3_JournalAtDone ==
    pc = "done" => journal = <<ExpectedJournal(Len(requests))>>

\* Done after two pages, the second with a two-line description.
C3_DoneAfterTwoPages ==
    /\ pc = "done"
    /\ Len(requests) = 2
    /\ Len(Visited(2).lines) = 2
    /\ Visited(1).title # Visited(2).title

-----------------------------------------------------------------------------
(* C4 *)

\* The page shows the banner of an expired session.
LoggedOutPage(page) == \E a \in 1..Len(page.alerts) : page.alerts[a] = LoggedOutAlert

\* C4: once get_metadata has run on a page with a "logged out" alert, the run
\* is aborted by LoggedOutException, whether or not the page has a title, a
\* note and a caption; no asset of the page was requested or written and md
\* holds no section for it.
C4_LoggedOutAborts ==
    \A n \in 1..Len(requests) :
        ( /\ site[requests[n]] # <<>>
          /\ LoggedOutPage(Visited(n))
          /\ ~(n = Len(requests) /\ pc = "save_media") ) =>
            /\ n = Len(requests)
            /\ pc = "aborted"
            /\ failure = <<[step |-> "metadata", exc |-> "LoggedOutException"]>>
            /\ \A d \in 1..Len(downloads) : downloads[d].page # requests[n]
            /\ \A f \in 1..Len(files) : files[f].page # requests[n]
            /\ md = ExpectedJournal(n - 1)

\* The second page is a logged-out page without title, note and caption, with
\* images in its gallery.
C4_LoggedOutWithoutFields ==
    /\ pc = "aborted"
    /\ Len(requests) = 2
    /\ site[requests[2]] # <<>>
    /\ LoggedOutPage(Visited(2))
    /\ doc[1].h1 = <<>> /\ doc[1].note = <<>> /\ doc[1].caption = <<>>
    /\ doc[1].images # <<>>

-----------------------------------------------------------------------------
(* C5 *)

NoPageRequestedTwice ==
    \A i, j \in 1..Len(requests) : i # j => requests[i] # requests[j]

\* C5 as stated: whatever the shape of the "previous" links, no page
\* identifier is requested twice.
C5_AtMostOnceForEveryGraph == NoPageRequestedTwice

\* C5 amended: while the "previous" links of the pages seen form no cycle, no
\* page identifier is requested twice.
C5_AtMostOnceWithoutCycle == Acyclic => NoPageRequestedTwice

\* Three pages walked on links without a cycle.
C5_ThreePagesNoCycle ==
    /\ Acyclic
    /\ Len(requests) = 3
    /\ pc = "next"
    /\ NoPageRequestedTwice

-----------------------------------------------------------------------------
(* C6 *)

\* C6: after the "previous" link of the page was looked up, the walk is over
\* (Done follows) if the page has no link, goes on with the identifier if the
\* href gives one, and is otherwise aborted by a navigation error.
C6_NavigationOutcome ==
    /\ (requests # <<>> /\ pc \in {"while", "done"}) =>
          LET link == Visited(Len(requests)).previous
          IN  CASE link.kind = "none" -> ~Truthy(observation_id)
                [] link.kind = "page" -> pc = "while" /\ observation_id = Str(link.target)
                [] OTHER -> FALSE
    /\ (pc = "aborted" /\ failure[1].step = "navigation") =>
          Visited(Len(requests)).previous.kind \notin {"none", "page"}

-----------------------------------------------------------------------------
(* C7 *)

\* C7 as stated: two assets of one kind that differ in timestamp, title or
\* ordinal get different file names.
C7_AnyDifferenceGivesDifferentNames ==
    (names # <<>> /\ name_args[1].video = name_args[2].video
        /\ (\/ name_args[1].metadata.date # name_args[2].metadata.date
            \/ name_args[1].metadata.title # name_args[2].metadata.title
            \/ name_args[1].index # name_args[2].index))
    => names[1] # names[2]

\* C7 amended: two assets of one kind get different file names when their
\* timestamps differ, and when they have the same title and different
\* ordinals.
C7_TimestampOrOrdinalGivesDifferentNames ==
    (names # <<>> /\ name_args[1].video = name_args[2].video
        /\ (\/ name_args[1].metadata.date # name_args[2].metadata.date
            \/ /\ name_args[1].metadata.title = name_args[2].metadata.title
               /\ name_args[1].index # name_args[2].index))
    => names[1] # names[2]

\* Two assets of one page, its title with a non-ASCII character, named.
C7_SameTitleTwoOrdinals ==
    /\ names # <<>>
    /\ name_args[1].metadata = name_args[2].metadata
    /\ \E i \in 1..Len(name_args[1].metadata.title) :
          name_args[1].metadata.title[i] > 127
    /\ name_args[1].index = 0 /\ name_args[2].index = 1
    /\ names[1] # names[2]

-----------------------------------------------------------------------------
(* C8 *)

\* The path of a page's asset up to the ordinal:
\* <images-dir>/<YYYY-MM-DD-HH-MM>-<slug>, written out for the two observations.
ExpectedStem(page) ==
    IF page.title = Observation1.title
    THEN <<46, 47, 105, 109, 97, 103, 101, 115, 47, 50, 48, 50, 51, 45, 48, 53, 45,
           48, 50, 45, 49, 52, 45, 51, 48, 45, 65, 114, 116, 45, 68, 97, 121, 33>>
                                          \* ./images/2023-05-02-14-30-Art-Day!
    ELSE <<46, 47, 105, 109, 97, 103, 101, 115, 47, 50, 48, 50, 50, 45, 49, 50, 45,
           49, 50, 45, 48, 48, 45, 48, 53, 45, 67, 97, 102, 45, 122>>
                                          \* ./images/2022-12-12-00-05-Caf-z

ExpectedName(page, k, video) ==
    ExpectedStem(page)
        \o (IF k = 0 THEN <<>> ELSE <<45>> \o Dec(k))
        \o (IF video THEN <<46, 109, 112, 52>> ELSE <<46, 106, 112, 101, 103>>)

\* The number of assets of the first n pages requested.
RECURSIVE AssetsOfFirst(_)
AssetsOfFirst(n) ==
    IF n = 0 THEN 0
    ELSE AssetsOfFirst(n - 1) + Len(Visited(n).images) + Len(Visited(n).videos)

\* C8: when the processing of a page with N images and M videos has
\* succeeded, exactly N + M files were written for it: first the images with
\* ordinals 0..N-1 as .jpeg, then the videos with ordinals 0..M-1 as .mp4,
\* each named <stem>[-<ordinal>].<ext> with no suffix for ordinal 0, and all
\* under different names.
C8_FilesOfAPage ==
    pc = "next" =>
        LET n    == Len(requests)
            page == Visited(n)
            N    == Len(page.images)
            M    == Len(page.videos)
            base == Len(files) - (N + M)
        IN  /\ Len(files) = AssetsOfFirst(n)
            /\ \A k \in 0..(N - 1) :
                  /\ files[base + k + 1].path = ExpectedName(page, k, FALSE)
                  /\ files[base + k + 1].video = FALSE
                  /\ files[base + k + 1].index = k
                  /\ files[base + k + 1].page = requests[n]
            /\ \A k \in 0..(M - 1) :
                  /\ files[base + N + k + 1].path = ExpectedName(page, k, TRUE)
                  /\ files[base + N + k + 1].video = TRUE
                  /\ files[base + N + k + 1].index = k
                  /\ files[base + N + k + 1].page = requests[n]
            /\ \A i, j \in (base + 1)..Len(files) :
                  i # j => files[i].path # files[j].path

\* The second page, with two images and two videos, has been processed.
C8_TwoImagesTwoVideos ==
    /\ pc = "next"
    /\ Len(requests) = 2
    /\ Len(Visited(2).images) = 2 /\ Len(Visited(2).videos) = 2
    /\ Len(files) = AssetsOfFirst(1) + 4

-----------------------------------------------------------------------------
(* C9 *)

C9_NothingAfterAFailure ==
    /\ failure # <<>> <=> pc = "aborted"
    /\ \A n \in 1..(Len(requests) - 1) :
          site[requests[n]] # <<>> /\ Visited(n) \in GoodPages
    /\ (requests # <<>> /\ pc \in {"next", "while", "done"}) =>
          Visited(Len(requests)) \in GoodPages
    /\ (pc = "aborted" /\ failure[1].step = "metadata") =>
          \A d \in 1..Len(downloads) : downloads[d].page # requests[Len(requests)]

-----------------------------------------------------------------------------
(* C10 *)

\* The element an asset request was made for.
AssetOf(d) ==
    LET page == site[d.page][1]
    IN  IF d.video THEN page.videos[d.index + 1] ELSE page.images[d.index + 1]

\* C10: an asset request that meets a timeout, a connection error or a
\* non-2xx status aborts the run with a download failure, and no file is
\* written for that asset.
C10_TransportFailureAborts ==
    \A d \in 1..Len(downloads) :
        AssetOf(downloads[d]).response \in {"timeout", "connection_error", "http_error"} =>
            /\ pc = "aborted"
            /\ failure[1].step = "download"
            /\ d = Len(downloads)
            /\ \A f \in 1..Len(files) :
                  ~(/\ files[f].page = downloads[d].page
                    /\ files[f].video = downloads[d].video
                    /\ files[f].index = downloads[d].index)

-----------------------------------------------------------------------------
(* C11 *)

\* C11 as stated: main() exits with a non-zero status when the run ends on the
\* detection of an expired session, and with status zero for every other way
\* the run ends.
C11_ZeroUnlessLoggedOut ==
    /\ pc \in {"done", "aborted"} => exit_status # <<>>
    /\ exit_status # <<>> =>
          (exit_status[1] # 0 <=>
              (failure # <<>> /\ failure[1].exc = "LoggedOutException"))

\* C11, amended: the process exits with status 1 whenever the run is aborted,
\* by the detection of an expired session or by any other exception, and with
\* status 0 exactly when the run is Done; it has no status before that.
C11_ZeroOnlyWhenDone ==
    /\ pc = "done" <=> exit_status = <<0>>
    /\ pc = "aborted" <=> exit_status = <<1>>
    /\ exit_status # <<>> => pc \in {"done", "aborted"}
    /\ pc = "aborted" => failure # <<>>
    /\ pc = "done" => failure = <<>>

\* A run ended by an exception main() does not catch, after a first page
\* went through.
C11_AbortedByAnUncaughtException ==
    /\ pc = "aborted"
    /\ failure[1].exc \in {"Timeout", "ConnectionError", "HTTPError", "AttributeError",
                           "ValueError", "KeyError", "RuntimeError"}
    /\ exit_status = <<1>>
    /\ Len(requests) = 2

-----------------------------------------------------------------------------
(* C12 *)

HasNonAscii(s) == \E i \in 1..Len(s) : s[i] > 127

\* C12: for a metadata value whose title contains non-ASCII characters, for
\* either kind and any ordinal, the file name get_file_name returns contains
\* only ASCII characters and no space character.
C12_AsciiNameWithoutSpace ==
    (names # <<>> /\ HasNonAscii(name_args[1].metadata.title)) =>
        \A i \in 1..Len(names[1]) : names[1][i] \in 0..127 /\ names[1][i] # 32

\* The name of the second video of "a <e-acute>1" at 14:30 is
\* ./images/2023-05-02-14-30-a-1-1.mp4
C12_NonAsciiAfterASpace ==
    /\ names # <<>>
    /\ name_args[1].metadata.title = <<97, 32, 233, 49>>
    /\ name_args[1].index = 1
    /\ name_args[1].video
    /\ name_args[1].metadata.date.minute = 30
    /\ names[1] = <<46, 47, 105, 109, 97, 103, 101, 115, 47,
                    50, 48, 50, 51, 45, 48, 53, 45, 48, 50, 45, 49, 52, 45, 51, 48, 45,
                    97, 45, 49, 45, 49, 46, 109, 112, 52>>

-----------------------------------------------------------------------------
(* C13 *)

\* The asset requests of one whole visit of page id: its images by ordinal,
\* then its videos by ordinal.
DownloadsOfPage(id) ==
    [i \in 1..Len(site[id][1].images) |-> [page |-> id, video |-> FALSE, index |-> i - 1]]
        \o [i \in 1..Len(site[id][1].videos) |-> [page |-> id, video |-> TRUE, index |-> i - 1]]

\* The asset requests of the first n visits, each of them whole.
DownloadsOfFirst(n) == Concat([i \in 1..n |-> DownloadsOfPage(requests[i])])

\* The n-th request was answered with a page.
Answered(n) == n > 0 /\ site[requests[n]] # <<>> /\ (pc = "aborted" => failure[1].step # "fetch")

\* Where the page requested last stands: every earlier page is through all
\* of its steps; of this page k asset requests are made, images first, each
\* kind by ordinal, after its metadata was extracted; its section is in md
\* only when all of them are made.
C13_Progress ==
    LET n == Len(requests)
    IN  IF ~Answered(n)
        THEN /\ downloads = DownloadsOfFirst(Max({n - 1, 0}))
             /\ md = ExpectedJournal(Max({n - 1, 0}))
        ELSE LET all == DownloadsOfPage(requests[n])
             IN  \E k \in 0..Len(all) :
                    /\ downloads = DownloadsOfFirst(n - 1) \o SubSeq(all, 1, k)
                    /\ k > 0 => metadata # <<>> /\ metadata[1].title = Strip(Visited(n).title)
                    /\ md \in {ExpectedJournal(n - 1), ExpectedJournal(n)}
                    /\ md = ExpectedJournal(n) => k = Len(all)
                    /\ pc \in {"next", "while", "done"} => md = ExpectedJournal(n)

\* The order of the steps: what must be so when a step of each kind is taken.
C13_Order ==
    LET n == Len(requests)
    IN  /\ requests' # requests =>
              /\ pc = "while"
              /\ md = ExpectedJournal(n)
              /\ downloads = DownloadsOfFirst(n)
              /\ n > 0 => observation_id = get_next_observation_id(doc[1]).value
        /\ metadata' # metadata =>
              /\ pc = "save_media"
              /\ downloads = DownloadsOfFirst(n - 1)
              /\ UNCHANGED <<requests, downloads, md, observation_id>>
        /\ downloads' # downloads =>
              /\ pc \in {"images", "videos"}
              /\ pc = "images" => \A d \in 1..Len(downloads) :
                                     d > Len(DownloadsOfFirst(n - 1)) => ~downloads[d].video
              /\ md = ExpectedJournal(n - 1)
              /\ UNCHANGED <<requests, md, observation_id>>
        /\ md' # md =>
              /\ pc = "videos" /\ pc' = "next"
              /\ downloads = DownloadsOfFirst(n)
              /\ md' = ExpectedJournal(n)
              /\ UNCHANGED <<requests, downloads, observation_id>>
        /\ pc = "next" =>
              /\ pc' \in {"while", "aborted"}
              /\ md = ExpectedJournal(n)
              /\ UNCHANGED <<requests, downloads, md>>
        /\ observation_id' # observation_id => pc = "next"

\* C13: for each visited page the steps occur as fetch, metadata extraction,
\* all image downloads in ordinal order, all video downloads in ordinal order,
\* journal section append, "previous" link lookup; the fetch of the next page
\* never begins before the section of the current page has been appended.
C13_StepsInOrder == []C13_Progress /\ [][C13_Order]_vars

\* The second page, of two images and two videos, is through its six steps
\* and the third page is about to be fetched.
C13_SecondPageThrough ==
    /\ pc = "while"
    /\ Truthy(observation_id)
    /\ Len(requests) = 2
    /\ Len(DownloadsOfPage(requests[2])) = 4
    /\ requests[1] # requests[2]

-----------------------------------------------------------------------------
(* C14 *)

\* The number of pages whose metadata extraction and media downloads have
\* completed: save_media_for_page has returned for every page requested, but
\* for the last one while the run is still in it or was aborted in it.
CompletedPages ==
    LET n == Len(requests)
    IN  IF n = 0 THEN 0
        ELSE IF \/ pc \in {"next", "while", "done"}
                \/ pc = "aborted" /\ failure[1].step = "navigation"
        THEN n
        ELSE n - 1

\* md is the header and one section for each completed page, in the order of
\* the visits.
C14_MirrorsCompletedPages == md = ExpectedJournal(CompletedPages)

\* Every step leaves md as it is or adds to its end.
C14_AppendOnly == Len(md') >= Len(md) /\ SubSeq(md', 1, Len(md)) = md

\* C14: the in-memory journal is append-only and mirrors the completed pages:
\* in every reachable state it is the header followed by one section for each
\* page whose metadata extraction and media downloads have all completed, in
\* visitation order, and each later value has every earlier value as a
\* prefix; a page whose download fails midway may leave files on disk but has
\* no section in the journal.
C14_JournalInMemory == []C14_MirrorsCompletedPages /\ [][C14_AppendOnly]_vars

\* The second page was aborted by its second video: its two images and its
\* first video are on disk, and md holds the section of the first page only.
C14_FilesWithoutSection ==
    /\ pc = "aborted"
    /\ failure[1] = [step |-> "download", exc |-> "ConnectionError"]
    /\ Len(requests) = 2
    /\ requests[1] # requests[2]
    /\ Cardinality({f \in 1..Len(files) : files[f].page = requests[2]}) = 3
    /\ md = Header \o ExpectedSection(Visited(1))

-----------------------------------------------------------------------------
(* C15 *)

\* The anchor of the "previous" link of the page requested last.
LastAnchor == RenderPage(Visited(Len(requests))).previous

\* The text "<base_url>/".
BaseSlash == config.base_url \o <<47>>

\* t occurs in s at position p.
OccursAt(s, t, p) == p + Len(t) - 1 <= Len(s) /\ SubSeq(s, p, p + Len(t) - 1) = t

\* r is the maximal run of decimal digits that directly follows the first
\* occurrence of "<base_url>/" in href.
IsDigitRunAfterBase(r, href) ==
    \E p \in 1..Len(href) :
        /\ OccursAt(href, BaseSlash, p)
        /\ \A q \in 1..(p - 1) : ~OccursAt(href, BaseSlash, q)
        /\ LET from == p + Len(BaseSlash)
           IN  /\ OccursAt(href, r, from)
               /\ \A i \in 1..Len(r) : r[i] \in 48..57
               /\ from + Len(r) <= Len(href) => href[from + Len(r)] \notin 48..57

\* The identifier get_next_observation_id has returned for a link with an
\* href is that run, and it raises for such a link only when the href has no
\* "<base_url>/" in it.
C15_IdentifierIsTheDigitRun ==
    /\ (requests # <<>> /\ pc \in {"while", "done"} /\ LastAnchor # <<>>) =>
          /\ ~observation_id.none
          /\ IsDigitRunAfterBase(observation_id.str, LastAnchor[1].href[1])
    /\ (pc = "aborted" /\ failure[1].step = "navigation") =>
          \A p \in 1..Len(LastAnchor[1].href[1]) :
              ~OccursAt(LastAnchor[1].href[1], BaseSlash, p)

\* With an empty identifier, as with none, the only step is the end of the
\* loop: the journal is written, no page is requested and no error raised.
C15_EmptyRunEndsTheWalk ==
    (pc = "while" /\ ~Truthy(observation_id)) =>
        /\ pc' = "done"
        /\ journal' = <<md>>
        /\ failure' = <<>>
        /\ exit_status' = <<0>>
        /\ UNCHANGED <<requests, md, downloads, files>>

\* C15: the identifier get_next_observation_id returns is the maximal,
\* possibly empty, run of decimal digits directly after "<base_url>/" at its
\* first occurrence in the href; when the run is empty the walk stops as it
\* does with no link: the loop ends, the journal is written, no error is
\* raised.
C15_DigitRunIdentifier ==
    /\ []C15_IdentifierIsTheDigitRun
    /\ [](pc = "while" /\ ~Truthy(observation_id) => ENABLED WriteJournal)
    /\ [][C15_EmptyRunEndsTheWalk]_vars

\* The walk of two pages ended, journal written, on the second page's link
\* to <base_url>/a<base_url>/1, whose digit run is empty.
C15_DoneOnAnEmptyRun ==
    /\ pc = "done"
    /\ Len(requests) = 2
    /\ LastAnchor # <<>>
    /\ LastAnchor[1].href[1] = BaseSlash \o <<97>> \o BaseSlash \o <<49>>
    /\ observation_id = Str(<<>>)
    /\ journal = <<ExpectedJournal(2)>>
    /\ failure = <<>>

-----------------------------------------------------------------------------
(* C16 *)

\* On links with a cycle, while no step has failed, the run is not at its
\* end, the journal is not written, and at the head of the loop there is a
\* page to request.
C16_CycleNeverEnds ==
    (~Acyclic /\ failure = <<>>) =>
        /\ pc \notin {"done", "aborted"}
        /\ journal = <<>>
        /\ pc = "while" => Truthy(observation_id) /\ observation_id.str \in PageIds

\* C16: when the "previous" links reached from the first identifier form a
\* finite chain without a cycle, every run eventually reaches Done or
\* Aborted; when they contain a cycle and no step fails, the run never
\* reaches a terminal state and never writes the journal.
C16_TerminationFollowsTheLinks ==
    /\ ([]Acyclic) => <>(pc \in {"done", "aborted"})
    /\ []C16_CycleNeverEnds

\* The second lap on a cycle of two pages: page 1 is requested a second time
\* and went through, nothing has failed, nothing is written.
C16_SecondLap ==
    /\ ~Acyclic
    /\ failure = <<>>
    /\ pc = "next"
    /\ Len(requests) = 3
    /\ requests[3] = requests[1]
    /\ requests[2] # requests[1]
    /\ journal = <<>>

=============================================================================
